---- MODULE Spec2Model ----
(***************************************************************************)
(* Model of the Hive defect/metrics mining scripts:                        *)
(*   - src/src/generate_git_understand.py : the version-ordered metrics    *)
(*     pipeline (HiveMetricsCollector and main);                           *)
(*   - src/src/generate_jira_git.py       : the parallel commit matcher    *)
(*     (search_commit, process_issues_batch).                              *)
(*                                                                         *)
(* Five specifications share the variables:                                *)
(*   Spec          the metrics pipeline, one invocation of main()          *)
(*   SpecRerun     main() invoked again on the same clone and data folder  *)
(*   SpecResolver  get_version_commits applied to bounded tag lists        *)
(*   SpecParse     the row parser of get_metrics on bounded analyzer files *)
(*   SpecMatcher   process_issues_batch on bounded histories and key lists *)
(***************************************************************************)
EXTENDS Integers, Sequences, FiniteSets, TLC

(***************************************************************************)
(* Bounds of the model.                                                    *)
(***************************************************************************)
\* longest tag list given to get_version_commits in SpecResolver
MaxTags == 3

\* most lines of an analyzer table given to the row parser in SpecParse
MaxLines == 3

\* most commits of the history the commit matcher scans
MaxHistory == 2

\* most issue keys given to process_issues_batch
MaxKeys == 3

\* largest batch_size given to process_issues_batch
MaxBatchSize == 2

\* largest cpu_count() of the host
MaxCpus == 3

\* invocations of main() in a row against the same clone and data directory
MaxRuns == 2

\* longest tag list of the repository the pipeline runs against
MaxRepoTags == 2

(***************************************************************************)
(* Generic helpers.                                                        *)
(***************************************************************************)
Range(s) == {s[i] : i \in 1..Len(s)}

\* all sequences over S of length 0..n
SeqsUpTo(S, n) == UNION {[1..k -> S] : k \in 0..n}

RECURSIVE FilterSeq(_, _)
\* the subsequence of s whose elements are in the set Keep
FilterSeq(s, Keep) ==
    IF s = <<>> THEN <<>>
    ELSE IF Head(s) \in Keep THEN <<Head(s)>> \o FilterSeq(Tail(s), Keep)
         ELSE FilterSeq(Tail(s), Keep)

(***************************************************************************)
(* Commit identifiers.  A full hash (hexsha) is its 7-character            *)
(* abbreviation followed by the remaining 33 characters.                   *)
(***************************************************************************)
Sha1 == <<"1a1a1a1", "rest-of-sha-1">>
Sha2 == <<"2b2b2b2", "rest-of-sha-2">>
Sha3 == <<"3c3c3c3", "rest-of-sha-3">>
\* what HEAD points at is a commit (its hexsha) or the primary branch
Master == <<"master">>

Hexshas == {Sha1, Sha2, Sha3}

(***************************************************************************)
(* Tag names.  A name is kept in the pieces the pattern looks at:          *)
(* prefix, stem, the dot-separated numeric components, and what follows.   *)
(*   "rel/release-2.10.0" = [prefix "rel/", stem "release-",               *)
(*                           nums <<2,10,0>>, suffix ""]                   *)
(***************************************************************************)
TagName(prefix, stem, nums, suffix) ==
    [prefix |-> prefix, stem |-> stem, nums |-> nums, suffix |-> suffix]

Release_2_9_0      == TagName("", "release-", <<2, 9, 0>>, "")
Release_2_10_0     == TagName("", "release-", <<2, 10, 0>>, "")
Rel_Release_2_10_0 == TagName("rel/", "release-", <<2, 10, 0>>, "")
Release_3_1_0      == TagName("", "release-", <<3, 1, 0>>, "")
Rc_Nightly         == TagName("", "rc-nightly", <<>>, "")
Release_1_2_0      == TagName("", "release-", <<1, 2, 0>>, "")
Release_10_0_0     == TagName("", "release-", <<10, 0, 0>>, "")
Release_2_0        == TagName("", "release-", <<2, 0>>, "")
Release_2_0_0_rc1  == TagName("", "release-", <<2, 0, 0>>, "-rc1")
Old_Release_3_1_0  == TagName("old/", "release-", <<3, 1, 0>>, "")

TagNames ==
    {Release_2_9_0, Release_2_10_0, Rel_Release_2_10_0, Release_3_1_0,
     Rc_Nightly, Release_1_2_0, Release_10_0_0, Release_2_0,
     Release_2_0_0_rc1, Old_Release_3_1_0}

Tag(name, commit) == [name |-> name, commit |-> commit]

\* tag names are unique in a repository
DistinctNames(tagList) ==
    \A i, j \in 1..Len(tagList) : i # j => tagList[i].name # tagList[j].name

TagLists(names, n) ==
    {t \in SeqsUpTo({Tag(nm, c) : nm \in names, c \in {Sha1, Sha2}}, n) :
        DistinctNames(t)}

\* the pattern without its closing anchor: text may follow the version
UnanchoredTagRegex(name) ==
    /\ name.prefix \in {"", "rel/"}
    /\ name.stem = "release-"
    /\ Len(name.nums) = 3
    /\ name.nums[1] \in {2, 3, 4}

\* VERSION_TAG_REGEX.fullmatch(name) is not None:
\*   ^(?:rel\/)?release-(?P<version>[234]\.\d+\.\d+)$
VERSION_TAG_REGEX(name) ==
    /\ name.prefix \in {"", "rel/"}
    /\ name.stem = "release-"
    /\ Len(name.nums) = 3
    /\ name.nums[1] \in {2, 3, 4}
    /\ name.suffix = ""

\* Version(match.group("version")): the release tuple of the matched text
Version(name) == name.nums

\* the decimal digits of a component below 100
Digits(n) == IF n < 10 THEN <<n>> ELSE <<n \div 10, n % 10>>

\* "<" on the components' texts: "10" < "9"
TextLess(m, n) ==
    LET a == Digits(m)
        b == Digits(n)
    IN  \/ a[1] < b[1]
        \/ a[1] = b[1] /\ Len(a) < Len(b)
        \/ a[1] = b[1] /\ Len(a) = 2 /\ Len(b) = 2 /\ a[2] < b[2]

\* the versions compared as strings instead of as integers
VersionLessAsText(a, b) ==
    \/ TextLess(a[1], b[1])
    \/ a[1] = b[1] /\ TextLess(a[2], b[2])
    \/ a[1] = b[1] /\ a[2] = b[2] /\ TextLess(a[3], b[3])

\* packaging.version.Version.__lt__ on release tuples of three integers
VersionLess(a, b) ==
    \/ a[1] < b[1]
    \/ a[1] = b[1] /\ a[2] < b[2]
    \/ a[1] = b[1] /\ a[2] = b[2] /\ a[3] < b[3]

\* list.sort(key=lambda x: x[0]) is stable: an element goes after every
\* element already placed whose key is not greater than its own
InsertSorted(sorted, x) ==
    LET after == {i \in 1..Len(sorted) : ~ VersionLess(x[1], sorted[i][1])}
        k == IF after = {} THEN 0
             ELSE CHOOSE i \in after : \A j \in after : j <= i
    IN  SubSeq(sorted, 1, k) \o <<x>> \o SubSeq(sorted, k + 1, Len(sorted))

RECURSIVE SortByVersion(_)
SortByVersion(pairs) ==
    IF pairs = <<>> THEN <<>>
    ELSE InsertSorted(SortByVersion(SubSeq(pairs, 1, Len(pairs) - 1)),
                      pairs[Len(pairs)])

RECURSIVE MatchingPairs(_)
\* the loop over self.repo.tags: (version, commit.hexsha) of each matching tag
MatchingPairs(tagList) ==
    IF tagList = <<>> THEN <<>>
    ELSE LET tag == Head(tagList)
         IN  IF ~ VERSION_TAG_REGEX(tag.name)
             THEN MatchingPairs(Tail(tagList))
             ELSE <<(<<Version(tag.name), tag.commit>>)>>
                  \o MatchingPairs(Tail(tagList))

get_version_commits(tagList) == SortByVersion(MatchingPairs(tagList))


(***************************************************************************)
(* The analyzer's table.  A line of text is a sequence of tokens: "," is  *)
(* the separator, " " and "\n" are whitespace, any other token is a piece  *)
(* of field text.  A field is the sequence of tokens between separators.   *)
(***************************************************************************)
\* self.metrics, as declared (CountPath is declared twice)
metrics ==
    <<"AvgCyclomatic", "AvgCyclomaticModified", "AvgCyclomaticStrict",
      "AvgEssential", "AvgLine", "AvgLineBlank", "AvgLineCode", "AvgLineComment",
      "CountDeclClass", "CountDeclExecutableUnit", "CountDeclFunction",
      "CountDeclInstanceVariable", "CountDeclMethod", "CountDeclMethodAll",
      "CountDeclMethodDefault", "CountDeclMethodPrivate", "CountDeclMethodProtected",
      "CountDeclMethodPublic", "CountLine", "CountLineBlank", "CountLineCode",
      "CountLineCodeDecl", "CountLineCodeExe", "CountLineComment", "CountLineInactive",
      "CountLinePreprocessor", "CountSemicolon", "CountStmt", "CountStmtDecl",
      "CountStmtExe", "MaxCyclomatic", "MaxCyclomaticModified", "MaxCyclomaticStrict",
      "RatioCommentToCode", "SumCyclomatic", "SumCyclomaticModified",
      "SumCyclomaticStrict", "SumEssential",
      "CountInput", "CountOutput", "CountPath", "MaxNesting", "CountPath">>

Whitespace == {" ", "\n"}

RECURSIVE LStrip(_)
LStrip(line) ==
    IF line # <<>> /\ Head(line) \in Whitespace THEN LStrip(Tail(line)) ELSE line

RECURSIVE RStrip(_)
RStrip(line) ==
    IF line # <<>> /\ line[Len(line)] \in Whitespace
    THEN RStrip(SubSeq(line, 1, Len(line) - 1))
    ELSE line

\* str.strip()
Strip(line) == RStrip(LStrip(line))

RECURSIVE Split(_)
\* str.split(','): the text without a separator is one field, also when empty
Split(text) ==
    LET seps == {i \in 1..Len(text) : text[i] = ","}
    IN  IF seps = {} THEN <<text>>
        ELSE LET k == CHOOSE i \in seps : \A j \in seps : i <= j
             IN  <<SubSeq(text, 1, k - 1)>> \o Split(SubSeq(text, k + 1, Len(text)))

\* the last position at which a name is declared in self.metrics
LastDeclared(name) ==
    CHOOSE i \in 1..Len(metrics) :
        /\ metrics[i] = name
        /\ \A j \in 1..Len(metrics) : metrics[j] = name => j <= i

\* {'File': values[0], **{metric: value for metric, value in zip(...)}}:
\* a dict, so a name declared twice keeps the value zipped with it last
MetricsDict(values) ==
    [name \in {"File"} \cup Range(metrics) |->
        IF name = "File" THEN values[1] ELSE values[1 + LastDeclared(name)]]

RECURSIVE ParseRowsStopAtMalformed(_)
\* the row loop leaving at the first row it does not keep
ParseRowsStopAtMalformed(lines) ==
    IF lines = <<>> THEN <<>>
    ELSE LET values == Split(Strip(Head(lines)))
         IN  IF values[1] # <<"File">> THEN <<>>
             ELSE IF Len(values) = Len(metrics) + 1
                  THEN <<MetricsDict(values)>>
                       \o ParseRowsStopAtMalformed(Tail(lines))
                  ELSE <<>>

RECURSIVE ParseRows(_)
\* the body of "for line in csv_file" after the header flag is cleared
ParseRows(lines) ==
    IF lines = <<>> THEN <<>>
    ELSE LET values == Split(Strip(Head(lines)))
         IN  IF values[1] # <<"File">> THEN ParseRows(Tail(lines))
             ELSE IF Len(values) = Len(metrics) + 1
                  THEN <<MetricsDict(values)>> \o ParseRows(Tail(lines))
                  ELSE ParseRows(Tail(lines))

\* the read loop of get_metrics: the first line is skipped as the header
ParseCsv(lines) == IF lines = <<>> THEN <<>> ELSE ParseRows(Tail(lines))

RECURSIVE Join(_)
\* the text of a row of fields: the analyzer separates fields with ","
Join(fields) ==
    IF fields = <<>> THEN <<>>
    ELSE IF Len(fields) = 1 THEN fields[1]
         ELSE fields[1] \o <<",">> \o Join(Tail(fields))

\* a line of n fields written by the analyzer: the entity kind, the entity
\* name, then one value per remaining column (the column number)
AnalyzerLine(kind, name, n) ==
    Join([i \in 1..n |->
            IF i = 1 THEN <<kind>>
            ELSE IF i = 2 THEN <<name>> ELSE <<ToString(i)>>]) \o <<"\n">>

HeaderLine ==
    Join(<<(<<"Kind">>)>> \o [i \in 1..Len(metrics) |-> <<metrics[i]>>]) \o <<"\n">>

(***************************************************************************)
(* The output table hive_metrics.csv.  A row is a sequence of cells, a     *)
(* cell is field text (a sequence of tokens).                              *)
(***************************************************************************)
\* fieldnames = ['Version', 'CommitId', 'File'] + self.metrics
fieldnames == <<"Version", "CommitId", "File">> \o metrics

\* writer.writeheader(): the field names themselves
HeaderRow == [j \in 1..Len(fieldnames) |-> <<fieldnames[j]>>]

\* str(version)
VersionText(v) == <<ToString(v[1]), ".", ToString(v[2]), ".", ToString(v[3])>>

\* the keys of a row dict in insertion order: a name declared twice is one key
RowKeys ==
    <<"Version", "CommitId", "File">>
    \o FilterSeq([i \in 1..Len(metrics) |-> <<i, metrics[i]>>],
                 {<<i, metrics[i]>> : i \in {k \in 1..Len(metrics) :
                     \A j \in 1..(k - 1) : metrics[j] # metrics[k]}})

\* a row written from the values of the row dict, one cell per key
RowFromDictValues(version, commit_id, record) ==
    [j \in 1..Len(RowKeys) |->
        IF j = 1 THEN VersionText(version)
        ELSE IF j = 2 THEN commit_id
        ELSE IF j = 3 THEN record["File"]
        ELSE record[RowKeys[j][2]]]

\* row = {'Version': version, 'CommitId': commit_id, **metrics};
\* DictWriter.writerow(row) writes rowdict.get(name) for each of fieldnames
DictWriterRow(version, commit_id, record) ==
    [j \in 1..Len(fieldnames) |->
        IF fieldnames[j] = "Version" THEN VersionText(version)
        ELSE IF fieldnames[j] = "CommitId" THEN commit_id
        ELSE record[fieldnames[j]]]

(***************************************************************************)
(* The data directory: one analyzer table data/understand_db_<v>.csv and   *)
(* one analyzer database data/understand_db_<v>.und per version.           *)
(***************************************************************************)
Absent == [kind |-> "absent", text |-> <<>>]
Directory == [kind |-> "dir", text |-> <<>>]
File(text) == [kind |-> "file", text |-> text]

\* os.path.isfile(csv_path)
IsFile(entry) == entry.kind = "file"

\* os.path.exists(csv_path)
Exists(entry) == entry.kind # "absent"

\* the tables the analyzer may write for a source tree
AnalyzerOutputs ==
    { <<HeaderLine,
        AnalyzerLine("File", "a.java", Len(metrics) + 1),
        AnalyzerLine("Class", "A", Len(metrics) + 1),
        AnalyzerLine("File", "short.java", Len(metrics)),
        AnalyzerLine("File", "b.java", Len(metrics) + 1)>>,
      <<HeaderLine>> }

\* a table left in the data directory by an earlier extraction
StaleCsv == <<HeaderLine, AnalyzerLine("File", "old.java", Len(metrics) + 1)>>

\* an output table left by an earlier run
PreviousTable ==
    <<HeaderRow,
      DictWriterRow(<<2, 9, 0>>, Sha3,
                    MetricsDict(Split(Strip(StaleCsv[2]))))>>

(***************************************************************************)
(* The repository the pipeline runs against.                               *)
(***************************************************************************)
RepoTags ==
    {Tag(Release_2_9_0, Sha1), Tag(Release_2_10_0, Sha2),
     Tag(Rel_Release_2_10_0, Sha3)}

RepoTagLists ==
    {t \in SeqsUpTo(RepoTags, MaxRepoTags) : DistinctNames(t)}

\* the versions a cache artifact may be named after
CacheVersions == {Version(t.name) : t \in {u \in RepoTags : VERSION_TAG_REGEX(u.name)}}

VersionsOf(tagList) ==
    {Version(tagList[i].name) :
        i \in {k \in 1..Len(tagList) : VERSION_TAG_REGEX(tagList[k].name)}}

Closed == [open |-> FALSE, buffer |-> <<>>]

NoRun ==
    [ended |-> FALSE, exitCode |-> -1, table |-> <<>>, allCached |-> FALSE,
     undOk |-> FALSE, dbFiles |-> [v \in CacheVersions |-> FALSE]]

VARIABLES
    \* ---- the repository clone and the disk
    tags,             \* repository tags, in the order repo.tags lists them
    head,             \* what the working tree is checked out at
    untracked,        \* untracked (not ignored) files lie in the working tree
    modified,         \* tracked files of the working tree carry local changes
    csvFiles,         \* data/understand_db_<v>.csv, per version
    dbFiles,          \* data/understand_db_<v>.und exists, per version
    outputTable,      \* hive_metrics.csv as it is on disk
    \* ---- the running script
    repoValid,        \* Repo(self.repo_path) opens a non-bare repository
    pc,               \* position of the running script
    version_commits,  \* the list get_version_commits returned
    idx,              \* position of the version loop in version_commits
    metrics_list,     \* records of the current version still to be written
    csv_out,          \* the open output file and its unflushed rows
    exc,              \* the exception being propagated ("none": none)
    exitCode,         \* the exit status of the process (-1: still running)
    \* ---- history of the run
    run,              \* number of the invocation (1 is the first)
    cleanResults,     \* outcome of each clean_repo call, in order
    undLog,           \* each analyzer command run: iteration, command, success
    extracted,        \* per iteration reached: number of records it extracted
    written,          \* per data row written by this run: its iteration
    prevRun,          \* SpecRerun: how the invocation before this one ended
    fatal,            \* the fatal error of the run and the iteration it hit
    csvFrom,          \* per version: the commit its csv was computed from
    \* ---- the commit matcher (generate_jira_git.py)
    history,          \* the commits repo.iter_commits() yields, in that order
    keys,             \* the issue keys of the issues given
    batch_size,       \* the batch_size argument
    cpu_count,        \* multiprocessing.cpu_count()
    mpc,              \* position of process_issues_batch
    batch_i,          \* the loop variable i of the batch loop
    tasks,            \* the calls of the batch given to pool.map
    results,          \* the list results
    faultLog,         \* per entry of results: what went wrong in its lookup
    outOfOrder,       \* a call of a batch ended before an earlier call of it
    batches,          \* the batches handed to pool.map so far, in order
    commit_results    \* the mapping process_issues_batch returns

matchVars == <<history, keys, batch_size, cpu_count, mpc, batch_i, tasks,
               results, faultLog, outOfOrder, batches, commit_results>>
repoVars == <<tags, head, untracked, modified, csvFiles, dbFiles, outputTable>>
procVars == <<repoValid, pc, version_commits, idx, metrics_list, csv_out, exc,
              exitCode>>
histVars == <<run, cleanResults, undLog, extracted, written, prevRun, fatal,
              csvFrom, matchVars>>
vars == <<repoVars, procVars, histVars>>

\* values of the variables a specification does not use
IdleRepo ==
    /\ head = Master
    /\ untracked = FALSE
    /\ modified = FALSE
    /\ dbFiles = [v \in CacheVersions |-> FALSE]
    /\ outputTable = <<>>

IdleProc ==
    /\ repoValid = TRUE
    /\ idx = 0
    /\ csv_out = Closed
    /\ exc = "none"
    /\ exitCode = -1

\* no fatal error so far
NoFatal == [kind |-> "none", iter |-> 0]

\* the origin of a csv: none yet, a csv found in data/ when the model starts
\* (FoundBefore), or the commit checked out when und metrics wrote it
NoCommit == <<"none">>
FoundBefore == <<"before">>
NoCsvFrom == [v \in CacheVersions |-> NoCommit]

IdleRuns ==
    /\ fatal = NoFatal
    /\ csvFrom = NoCsvFrom
    /\ run = 1
    /\ cleanResults = <<>>
    /\ undLog = <<>>
    /\ extracted = <<>>
    /\ written = <<>>
    /\ prevRun = NoRun

IdleMatcher ==
    /\ history = <<>>
    /\ keys = <<>>
    /\ batch_size = 1
    /\ cpu_count = 1
    /\ mpc = "idle"
    /\ batch_i = 0
    /\ tasks = <<>>
    /\ results = <<>>
    /\ faultLog = <<>>
    /\ outOfOrder = FALSE
    /\ batches = <<>>
    /\ commit_results = <<>>

IdleHist == IdleRuns /\ IdleMatcher

(***************************************************************************)
(* Spec: one invocation of main() of generate_git_understand.py.           *)
(***************************************************************************)
CacheStates == {Absent, File(StaleCsv), Directory}

InitRepo ==
    /\ tags \in RepoTagLists
    /\ head = Master
    /\ untracked \in BOOLEAN
    /\ modified \in BOOLEAN
    /\ csvFiles \in {c \in [CacheVersions -> CacheStates] :
                        \A v \in CacheVersions \ VersionsOf(tags) : c[v] = Absent}
    /\ dbFiles = [v \in CacheVersions |-> FALSE]
    /\ outputTable = PreviousTable

InitProc ==
    /\ repoValid \in BOOLEAN
    /\ pc = "main"
    /\ version_commits = <<>>
    /\ idx = 0
    /\ metrics_list = <<>>
    /\ csv_out = Closed
    /\ exc = "none"
    /\ exitCode = -1

InitHist ==
    /\ run = 1
    /\ cleanResults = <<>>
    /\ undLog = <<>>
    /\ extracted = <<>>
    /\ written = <<>>
    /\ prevRun = NoRun
    /\ fatal = NoFatal
    /\ csvFrom = [v \in CacheVersions |->
                     IF IsFile(csvFiles[v]) THEN FoundBefore ELSE NoCommit]

Init == InitRepo /\ InitProc /\ InitHist /\ IdleMatcher

\* the version and the commit of the current iteration
version == version_commits[idx][1]
commit_id == version_commits[idx][2]

\* the output file closed without its buffered rows reaching the disk
TableWithoutBuffer(table, out) == table

\* the output file on disk once the "with open(...)" block is left: closing
\* the file writes out the rows still buffered
TableAfterClose(table, out) ==
    IF out.open THEN table \o out.buffer ELSE table

CloseOutput ==
    /\ outputTable' = TableAfterClose(outputTable, csv_out)
    /\ csv_out' = Closed

\* an exception leaves collect_all_metrics' try block: the with blocks are
\* left (closing the output file) and the finally clause is entered
Unwind(e) ==
    /\ exc' = e
    /\ pc' = "finally"
    /\ CloseOutput

\* the log of the analyzer commands run, with the commit checked out then
LogUnd(cmd, ok) ==
    undLog' = Append(undLog, [iter |-> idx, cmd |-> cmd, ok |-> ok, head |-> head])

\* HiveMetricsCollector.__init__ called by main, outside any try block
Construct ==
    /\ pc = "main"
    /\ \/ /\ repoValid
          /\ pc' = "collect"
          /\ UNCHANGED exitCode
          /\ UNCHANGED fatal
       \/ /\ ~ repoValid
          /\ pc' = "exited"
          /\ exitCode' = 1
          /\ fatal' = [kind |-> "invalid_repo", iter |-> 0]
    /\ UNCHANGED repoVars
    /\ UNCHANGED <<run, cleanResults, undLog, extracted, written, prevRun, csvFrom,
                   matchVars>>
    /\ UNCHANGED <<repoValid, version_commits, idx, metrics_list, csv_out, exc>>

\* version_commits = self.get_version_commits()
GetVersionCommits ==
    /\ pc = "collect"
    /\ \/ /\ version_commits' = get_version_commits(tags)
          /\ pc' = "open"
          /\ UNCHANGED <<exc, csv_out, outputTable, fatal>>
       \/ \* GitCommandError while the tags are listed: sys.exit(1)
          /\ Unwind("SystemExit")
          /\ fatal' = [kind |-> "tag_listing", iter |-> 0]
          /\ UNCHANGED version_commits
    /\ UNCHANGED <<tags, head, untracked, modified, csvFiles, dbFiles>>
    /\ UNCHANGED <<repoValid, idx, metrics_list, exitCode>>
    /\ UNCHANGED <<run, cleanResults, undLog, extracted, written, prevRun, csvFrom,
                   matchVars>>

\* open(self.output_csv, 'w', newline=''): the file is truncated
OpenOutput ==
    /\ pc = "open"
    /\ outputTable' = <<>>
    /\ csv_out' = [open |-> TRUE, buffer |-> <<>>]
    /\ pc' = "header"
    /\ UNCHANGED <<tags, head, untracked, modified, csvFiles, dbFiles>>
    /\ UNCHANGED <<repoValid, version_commits, idx, metrics_list, exc, exitCode>>
    /\ UNCHANGED histVars

\* writer.writeheader(), then the version loop starts
WriteHeader ==
    /\ pc = "header"
    /\ csv_out' = [csv_out EXCEPT !.buffer = Append(@, HeaderRow)]
    /\ idx' = 1
    /\ pc' = "loop"
    /\ UNCHANGED repoVars
    /\ UNCHANGED <<repoValid, version_commits, metrics_list, exc, exitCode>>
    /\ UNCHANGED histVars

\* the buffered rows written from the start of the file, over the rows
\* already there
FlushBufferRewrite ==
    /\ csv_out.open
    /\ csv_out.buffer # <<>>
    /\ pc \in {"loop", "und_create", "und_add", "und_analyze", "get_metrics",
               "read_csv", "write"}
    /\ outputTable' = csv_out.buffer
    /\ csv_out' = [csv_out EXCEPT !.buffer = <<>>]
    /\ UNCHANGED <<tags, head, untracked, modified, csvFiles, dbFiles>>
    /\ UNCHANGED <<repoValid, pc, version_commits, idx, metrics_list, exc, exitCode>>
    /\ UNCHANGED histVars

\* the io buffer of the output file fills up and is written out
FlushBuffer ==
    /\ csv_out.open
    /\ csv_out.buffer # <<>>
    /\ pc \in {"loop", "und_create", "und_add", "und_analyze", "get_metrics",
               "read_csv", "write"}
    /\ outputTable' = outputTable \o csv_out.buffer
    /\ csv_out' = [csv_out EXCEPT !.buffer = <<>>]
    /\ UNCHANGED <<tags, head, untracked, modified, csvFiles, dbFiles>>
    /\ UNCHANGED <<repoValid, pc, version_commits, idx, metrics_list, exc, exitCode>>
    /\ UNCHANGED histVars

\* the version loop is exhausted: the with blocks are left normally
LoopDone ==
    /\ pc = "loop"
    /\ idx > Len(version_commits)
    /\ CloseOutput
    /\ pc' = "finally"
    /\ UNCHANGED <<tags, head, untracked, modified, csvFiles, dbFiles>>
    /\ UNCHANGED <<repoValid, version_commits, idx, metrics_list, exc, exitCode>>
    /\ UNCHANGED histVars

\* the cache lookup skipped: the database is created for every version
AlwaysCreate(entry) == "und_create"

\* "if not os.path.isfile(csv_path): self.create_understand_db(...)"
AfterCacheLookup(entry) ==
    IF ~ IsFile(entry) THEN "und_create" ELSE "get_metrics"

\* a checkout that asks for the commit of the iteration before
CheckoutPreviousCommit ==
    /\ pc = "loop"
    /\ idx <= Len(version_commits)
    /\ \/ /\ head' = version_commits[IF idx > 1 THEN idx - 1 ELSE 1][2]
          /\ pc' = AfterCacheLookup(csvFiles[version])
          /\ UNCHANGED <<exc, csv_out, outputTable, fatal>>
       \/ /\ Unwind("SystemExit")
          /\ fatal' = [kind |-> "checkout", iter |-> idx]
          /\ UNCHANGED head
    /\ UNCHANGED <<tags, untracked, modified, csvFiles, dbFiles>>
    /\ UNCHANGED <<repoValid, version_commits, idx, metrics_list, exitCode>>
    /\ UNCHANGED <<run, cleanResults, undLog, extracted, written, prevRun, csvFrom,
                   matchVars>>

\* a checkout whose failure is logged and the iteration carried on
CheckoutVersionIgnoreFailure ==
    /\ pc = "loop"
    /\ idx <= Len(version_commits)
    /\ \/ /\ head' = commit_id
          /\ UNCHANGED fatal
       \/ /\ fatal' = [kind |-> "checkout", iter |-> idx]
          /\ UNCHANGED head
    /\ pc' = AfterCacheLookup(csvFiles[version])
    /\ UNCHANGED <<exc, csv_out, outputTable>>
    /\ UNCHANGED <<tags, untracked, modified, csvFiles, dbFiles>>
    /\ UNCHANGED <<repoValid, version_commits, idx, metrics_list, exitCode>>
    /\ UNCHANGED <<run, cleanResults, undLog, extracted, written, prevRun, csvFrom,
                   matchVars>>

\* self.checkout_version(commit_id), then the cache lookup
CheckoutVersion ==
    /\ pc = "loop"
    /\ idx <= Len(version_commits)
    /\ \/ /\ head' = commit_id
          /\ pc' = AfterCacheLookup(csvFiles[version])
          /\ UNCHANGED <<exc, csv_out, outputTable, fatal>>
       \/ \* GitCommandError: sys.exit(1)
          /\ Unwind("SystemExit")
          /\ fatal' = [kind |-> "checkout", iter |-> idx]
          /\ UNCHANGED head
    /\ UNCHANGED <<tags, untracked, modified, csvFiles, dbFiles>>
    /\ UNCHANGED <<repoValid, version_commits, idx, metrics_list, exitCode>>
    /\ UNCHANGED <<run, cleanResults, undLog, extracted, written, prevRun, csvFrom,
                   matchVars>>

\* create_understand_db: subprocess.run([und, "create", ...], check=True)
UndCreate ==
    /\ pc = "und_create"
    /\ \/ /\ dbFiles' = [dbFiles EXCEPT ![version] = TRUE]
          /\ LogUnd("create", TRUE)
          /\ pc' = "und_add"
          /\ UNCHANGED <<exc, csv_out, outputTable, fatal>>
       \/ \* non-zero exit: the database is removed and the error re-raised
          /\ dbFiles' = [dbFiles EXCEPT ![version] = FALSE]
          /\ LogUnd("create", FALSE)
          /\ Unwind("CalledProcessError")
          /\ UNCHANGED fatal
       \/ \* the analyzer cannot be launched (binary not found)
          /\ Unwind("Exception")
          /\ fatal' = [kind |-> "launch", iter |-> idx]
          /\ UNCHANGED <<dbFiles, undLog>>
    /\ UNCHANGED <<tags, head, untracked, modified, csvFiles>>
    /\ UNCHANGED <<repoValid, version_commits, idx, metrics_list, exitCode>>
    /\ UNCHANGED <<run, cleanResults, extracted, written, prevRun, csvFrom, matchVars>>

\* create_understand_db: subprocess.run([und, "add", ...], check=True)
UndAdd ==
    /\ pc = "und_add"
    /\ \/ /\ LogUnd("add", TRUE)
          /\ pc' = "und_analyze"
          /\ UNCHANGED <<dbFiles, exc, csv_out, outputTable>>
       \/ /\ dbFiles' = [dbFiles EXCEPT ![version] = FALSE]
          /\ LogUnd("add", FALSE)
          /\ Unwind("CalledProcessError")
    /\ UNCHANGED <<tags, head, untracked, modified, csvFiles>>
    /\ UNCHANGED <<repoValid, version_commits, idx, metrics_list, exitCode>>
    /\ UNCHANGED <<run, cleanResults, extracted, written, prevRun, fatal, csvFrom, matchVars>>

\* create_understand_db: subprocess.run([und, "analyze", ...], check=True)
UndAnalyze ==
    /\ pc = "und_analyze"
    /\ \/ /\ LogUnd("analyze", TRUE)
          /\ pc' = "get_metrics"
          /\ UNCHANGED <<dbFiles, exc, csv_out, outputTable>>
       \/ /\ dbFiles' = [dbFiles EXCEPT ![version] = FALSE]
          /\ LogUnd("analyze", FALSE)
          /\ Unwind("CalledProcessError")
    /\ UNCHANGED <<tags, head, untracked, modified, csvFiles>>
    /\ UNCHANGED <<repoValid, version_commits, idx, metrics_list, exitCode>>
    /\ UNCHANGED <<run, cleanResults, extracted, written, prevRun, fatal, csvFrom, matchVars>>

\* get_metrics, "if not os.path.exists(csv_path)": und metrics writes the
\* table next to the database; a non-zero exit makes get_metrics return []
UndMetrics ==
    /\ pc = "get_metrics"
    /\ ~ Exists(csvFiles[version])
    /\ \/ /\ \E text \in AnalyzerOutputs :
                csvFiles' = [csvFiles EXCEPT ![version] = File(text)]
          /\ csvFrom' = [csvFrom EXCEPT ![version] = head]
          /\ LogUnd("metrics", TRUE)
          /\ pc' = "read_csv"
          /\ UNCHANGED <<metrics_list, extracted>>
       \/ /\ LogUnd("metrics", FALSE)
          /\ metrics_list' = <<>>
          /\ extracted' = Append(extracted, 0)
          /\ pc' = "write"
          /\ UNCHANGED <<csvFiles, csvFrom>>
    /\ UNCHANGED <<tags, head, untracked, modified, dbFiles, outputTable>>
    /\ UNCHANGED <<repoValid, version_commits, idx, csv_out, exc, exitCode>>
    /\ UNCHANGED <<run, cleanResults, written, prevRun, fatal, matchVars>>

\* get_metrics, "with open(csv_path, 'r')": the rows are parsed
ReadCsv ==
    /\ \/ pc = "get_metrics" /\ Exists(csvFiles[version])
       \/ pc = "read_csv"
    /\ \/ /\ IsFile(csvFiles[version])
          /\ metrics_list' = ParseCsv(csvFiles[version].text)
          /\ extracted' = Append(extracted, Len(metrics_list'))
          /\ pc' = "write"
          /\ UNCHANGED <<exc, csv_out, outputTable>>
       \/ \* csv_path exists and is no file: open() raises
          /\ ~ IsFile(csvFiles[version])
          /\ Unwind("Exception")
          /\ UNCHANGED <<metrics_list, extracted>>
    /\ UNCHANGED <<tags, head, untracked, modified, csvFiles, dbFiles>>
    /\ UNCHANGED <<repoValid, version_commits, idx, exitCode>>
    /\ UNCHANGED <<run, cleanResults, undLog, written, prevRun, fatal, csvFrom, matchVars>>

\* one turn of "for metrics in metrics_list": writer.writerow(row)
WriteRow ==
    /\ pc = "write"
    /\ metrics_list # <<>>
    /\ csv_out' = [csv_out EXCEPT !.buffer =
                      Append(@, DictWriterRow(version, commit_id, Head(metrics_list)))]
    /\ metrics_list' = Tail(metrics_list)
    /\ written' = Append(written, idx)
    /\ UNCHANGED repoVars
    /\ UNCHANGED <<repoValid, pc, version_commits, idx, exc, exitCode>>
    /\ UNCHANGED <<run, cleanResults, undLog, extracted, prevRun, fatal, csvFrom, matchVars>>

\* the end of an iteration without the removal of the database
CleanupDbKeep ==
    /\ pc = "write"
    /\ metrics_list = <<>>
    /\ idx' = idx + 1
    /\ pc' = "loop"
    /\ UNCHANGED repoVars
    /\ UNCHANGED <<repoValid, version_commits, metrics_list, csv_out, exc, exitCode>>
    /\ UNCHANGED histVars

\* the rows are written: the database is removed if it exists,
\* progress.advance(task), next version
CleanupDb ==
    /\ pc = "write"
    /\ metrics_list = <<>>
    /\ dbFiles' = [dbFiles EXCEPT ![version] = FALSE]
    /\ idx' = idx + 1
    /\ pc' = "loop"
    /\ UNCHANGED <<tags, head, untracked, modified, csvFiles, outputTable>>
    /\ UNCHANGED <<repoValid, version_commits, metrics_list, csv_out, exc, exitCode>>
    /\ UNCHANGED histVars

\* the user interrupts the run inside collect_all_metrics' try block
Interrupt ==
    /\ pc \in {"collect", "open", "header", "loop", "und_create", "und_add",
               "und_analyze", "get_metrics", "read_csv", "write"}
    /\ Unwind("KeyboardInterrupt")
    /\ UNCHANGED <<tags, head, untracked, modified, csvFiles, dbFiles>>
    /\ UNCHANGED <<repoValid, version_commits, idx, metrics_list, exitCode>>
    /\ UNCHANGED histVars

\* how a call of clean_repo can go
CleanOutcomes == {"ok", "clean_failed", "checkout_failed", "interrupted"}

\* clean_repo without its "git checkout master"
CleanRepoTreeNoCheckout(outcome) ==
    /\ untracked' = IF outcome \in {"ok", "checkout_failed"} THEN FALSE
                    ELSE untracked
    /\ UNCHANGED <<head, modified>>
    /\ cleanResults' = Append(cleanResults, outcome)

\* clean_repo: git clean -fd removes the untracked files and directories
\* and leaves the tracked ones as they are; git checkout master follows
\* only if it succeeded; a GitCommandError of either is logged as a warning
CleanRepoTree(outcome) ==
    /\ untracked' = IF outcome \in {"ok", "checkout_failed"} THEN FALSE
                    ELSE untracked
    /\ head' = IF outcome = "ok" THEN Master ELSE head
    /\ UNCHANGED modified
    /\ cleanResults' = Append(cleanResults, outcome)

\* collect_all_metrics without its finally clause
NoFinallyClause ==
    /\ pc = "finally"
    /\ IF exc = "none"
       THEN pc' = "exited" /\ exitCode' = 0
       ELSE IF exc = "SystemExit"
       THEN pc' = "exited" /\ exitCode' = 1
       ELSE pc' = "handler" /\ UNCHANGED exitCode
    /\ UNCHANGED repoVars
    /\ UNCHANGED <<repoValid, version_commits, idx, metrics_list, csv_out, exc>>
    /\ UNCHANGED histVars

\* the finally clause with a clean_repo that lets its GitCommandError out:
\* the error raised in the finally clause takes the place of the exception
\* that was propagating
CleanRepoFinallyUncaught ==
    /\ pc = "finally"
    /\ \E outcome \in CleanOutcomes :
        /\ CleanRepoTree(outcome)
        /\ IF outcome = "interrupted"
           THEN /\ exc' = "KeyboardInterrupt"
                /\ pc' = "handler"
                /\ UNCHANGED exitCode
           ELSE IF outcome \in {"clean_failed", "checkout_failed"}
           THEN /\ exc' = "GitCommandError"
                /\ pc' = "handler"
                /\ UNCHANGED exitCode
           ELSE IF exc = "none"
           THEN /\ pc' = "exited"
                /\ exitCode' = 0
                /\ UNCHANGED exc
           ELSE IF exc = "SystemExit"
           THEN /\ pc' = "exited"
                /\ exitCode' = 1
                /\ UNCHANGED exc
           ELSE /\ pc' = "handler"
                /\ UNCHANGED <<exc, exitCode>>
    /\ UNCHANGED <<tags, csvFiles, dbFiles, outputTable>>
    /\ UNCHANGED <<repoValid, version_commits, idx, metrics_list, csv_out>>
    /\ UNCHANGED <<run, undLog, extracted, written, prevRun, fatal, csvFrom, matchVars>>

\* "finally: self.clean_repo()" of collect_all_metrics, then what main does
\* with the way collect_all_metrics ended
CleanRepoFinally ==
    /\ pc = "finally"
    /\ \E outcome \in CleanOutcomes :
        /\ CleanRepoTree(outcome)
        /\ IF outcome = "interrupted"
           THEN /\ exc' = "KeyboardInterrupt"
                /\ pc' = "handler"
                /\ UNCHANGED exitCode
           ELSE IF exc = "none"
           THEN /\ pc' = "exited"
                /\ exitCode' = 0
                /\ UNCHANGED exc
           ELSE IF exc = "SystemExit"
           THEN /\ pc' = "exited"
                /\ exitCode' = 1
                /\ UNCHANGED exc
           ELSE /\ pc' = "handler"
                /\ UNCHANGED <<exc, exitCode>>
    /\ UNCHANGED <<tags, csvFiles, dbFiles, outputTable>>
    /\ UNCHANGED <<repoValid, version_commits, idx, metrics_list, csv_out>>
    /\ UNCHANGED <<run, undLog, extracted, written, prevRun, fatal, csvFrom, matchVars>>

\* main's handlers leaving with sys.exit(1) without calling clean_repo
ExitWithoutCleanRepo ==
    /\ pc = "handler"
    /\ exitCode' = 1
    /\ pc' = "exited"
    /\ UNCHANGED repoVars
    /\ UNCHANGED <<repoValid, version_commits, idx, metrics_list, csv_out, exc>>
    /\ UNCHANGED histVars

\* main's "except KeyboardInterrupt" and "except Exception": clean_repo
\* again, then sys.exit(1); an interrupt inside the first handler escapes
CleanRepoHandler ==
    /\ pc = "handler"
    /\ \E outcome \in CleanOutcomes :
        /\ CleanRepoTree(outcome)
        /\ exitCode' = IF outcome = "interrupted" /\ exc = "KeyboardInterrupt"
                       THEN 130 ELSE 1
    /\ pc' = "exited"
    /\ UNCHANGED <<tags, csvFiles, dbFiles, outputTable>>
    /\ UNCHANGED <<repoValid, version_commits, idx, metrics_list, csv_out, exc>>
    /\ UNCHANGED <<run, undLog, extracted, written, prevRun, fatal, csvFrom, matchVars>>

Next ==
    \/ Construct
    \/ GetVersionCommits
    \/ OpenOutput
    \/ WriteHeader
    \/ FlushBuffer
    \/ LoopDone
    \/ CheckoutVersion
    \/ UndCreate
    \/ UndAdd
    \/ UndAnalyze
    \/ UndMetrics
    \/ ReadCsv
    \/ WriteRow
    \/ CleanupDb
    \/ Interrupt
    \/ CleanRepoFinally
    \/ CleanRepoHandler

Spec == Init /\ [][Next]_vars

(***************************************************************************)
(* SpecRerun: main() invoked again once the process has ended, against     *)
(* the clone and the data directory as the invocation before left them.    *)
(***************************************************************************)
StartNextRun ==
    /\ pc = "exited"
    /\ run < MaxRuns
    /\ prevRun' = [ended |-> TRUE,
                   exitCode |-> exitCode,
                   table |-> outputTable,
                   allCached |-> \A v \in VersionsOf(tags) : IsFile(csvFiles[v]),
                   undOk |-> \A k \in 1..Len(undLog) : undLog[k].ok,
                   dbFiles |-> dbFiles]
    /\ run' = run + 1
    /\ pc' = "main"
    /\ version_commits' = <<>>
    /\ idx' = 0
    /\ metrics_list' = <<>>
    /\ csv_out' = Closed
    /\ exc' = "none"
    /\ exitCode' = -1
    /\ cleanResults' = <<>>
    /\ undLog' = <<>>
    /\ extracted' = <<>>
    /\ written' = <<>>
    /\ fatal' = NoFatal
    /\ UNCHANGED <<repoVars, repoValid, csvFrom, matchVars>>

NextRerun == Next \/ StartNextRun

\* the first invocation starts on a clean working tree of a valid clone
\* (neither is looked at by the cache lookup)
InitRerun == Init /\ repoValid /\ ~ untracked /\ ~ modified

SpecRerun == InitRerun /\ [][NextRerun]_vars

(***************************************************************************)
(* SpecResolver: get_version_commits on every bounded tag list.            *)
(***************************************************************************)
InitResolver ==
    /\ tags \in TagLists(TagNames, MaxTags)
    /\ version_commits = <<>>
    /\ pc = "resolve"
    /\ csvFiles = [v \in CacheVersions |-> Absent]
    /\ metrics_list = <<>>
    /\ IdleRepo /\ IdleProc /\ IdleHist

ResolveVersions ==
    /\ pc = "resolve"
    /\ version_commits' = get_version_commits(tags)
    /\ pc' = "resolved"
    /\ UNCHANGED <<repoVars, histVars>>
    /\ UNCHANGED <<repoValid, idx, metrics_list, csv_out, exc, exitCode>>

NextResolver == ResolveVersions

SpecResolver == InitResolver /\ [][NextResolver]_vars

(***************************************************************************)
(* SpecParse: the read loop of get_metrics on every bounded analyzer table *)
(* found at csv_path.                                                      *)
(***************************************************************************)
ParseLines ==
    { HeaderLine,
      AnalyzerLine("File", "a.java", Len(metrics) + 1),
      AnalyzerLine("File", "b.java", Len(metrics) + 1),
      <<" ">> \o AnalyzerLine("File", "c.java", Len(metrics) + 1),
      AnalyzerLine("Class", "A", Len(metrics) + 1),
      AnalyzerLine("Class", "B", Len(metrics)),
      AnalyzerLine("File", "short.java", Len(metrics)),
      AnalyzerLine("File", "long.java", Len(metrics) + 2),
      AnalyzerLine("File", "", 1),
      <<"\n">> }

ParseVersion == <<2, 9, 0>>

InitParse ==
    /\ \E text \in SeqsUpTo(ParseLines, MaxLines) :
          csvFiles = [v \in CacheVersions |->
                         IF v = ParseVersion THEN File(text) ELSE Absent]
    /\ tags = <<>>
    /\ version_commits = <<>>
    /\ metrics_list = <<>>
    /\ pc = "read_csv"
    /\ IdleRepo /\ IdleProc /\ IdleHist

ReadAnalyzerTable ==
    /\ pc = "read_csv"
    /\ metrics_list' = ParseCsv(csvFiles[ParseVersion].text)
    /\ pc' = "parsed"
    /\ UNCHANGED <<repoVars, histVars>>
    /\ UNCHANGED <<repoValid, version_commits, idx, csv_out, exc, exitCode>>

NextParse == ReadAnalyzerTable

SpecParse == InitParse /\ [][NextParse]_vars

(***************************************************************************)
(* The commit matcher (generate_jira_git.py).  Issue keys, commit messages *)
(* and joined file paths are texts, written as sequences of chunks, so     *)
(* that `jira_key in commit.message` is a real substring test.             *)
(***************************************************************************)
Key_HIVE_1 == <<"HIVE-", "1">>
Key_HIVE_12 == <<"HIVE-", "1", "2">>
Key_HIVE_3 == <<"HIVE-", "3">>

IssueKeys == {Key_HIVE_1, Key_HIVE_12, Key_HIVE_3}

Commit(hexsha, message, files) ==
    [hexsha |-> hexsha, message |-> message, files |-> files]

Commits ==
    { Commit(Sha1, Key_HIVE_12 \o <<": ", "fix">>, <<"a.java", "b.java">>),
      Commit(Sha2, <<"Revert ">> \o Key_HIVE_1 \o <<" ", "and ">> \o Key_HIVE_3,
             <<"c.java">>),
      Commit(Sha3, <<"typo">>, <<>>) }

\* histories of distinct commits, newest first as iter_commits yields them
Histories ==
    { h \in SeqsUpTo(Commits, MaxHistory) :
          \A a, b \in 1..Len(h) : a # b => h[a] # h[b] }

\* `needle in text`
IsSubstring(needle, text) ==
    \E off \in 0..(Len(text) - Len(needle)) :
        SubSeq(text, off + 1, off + Len(needle)) = needle

\* ', '.join(paths)
RECURSIVE JoinPaths(_)
JoinPaths(paths) ==
    IF paths = <<>> THEN <<>>
    ELSE IF Len(paths) = 1 THEN <<paths[1]>>
         ELSE <<paths[1], ", ">> \o JoinPaths(Tail(paths))

\* commit.hexsha[:7]
ShortSha(hexsha) == <<hexsha[1]>>

NotAvailable == <<"N/A">>

NotFound(jira_key) ==
    [key |-> jira_key, commit_id |-> NotAvailable, file_paths |-> NotAvailable]

Found(jira_key, commit) ==
    [key |-> jira_key,
     commit_id |-> ShortSha(commit.hexsha),
     file_paths |-> JoinPaths(commit.files)]

\* what can go wrong in one lookup: git.Repo(repo_path) raises ("open"), the
\* commit iterator raises when asked for commit `at` ("iter"), or
\* commit.stats raises on the matching commit ("stats")
Fault(kind, at) == [kind |-> kind, at |-> at]
NoFault == Fault("none", 0)

FaultPoints(h) ==
    {NoFault, Fault("open", 0), Fault("stats", 0)}
        \cup { Fault("iter", j) : j \in 1..Len(h) }

\* how a block or a call ends
Returns(value) == [raised |-> FALSE, returned |-> TRUE, value |-> value]
Raises(jira_key) == [raised |-> TRUE, returned |-> FALSE, value |-> NotFound(jira_key)]
FallsThrough(jira_key) ==
    [raised |-> FALSE, returned |-> FALSE, value |-> NotFound(jira_key)]

\* a scan that keeps the last matching commit instead of returning at the first
ScanCommitsKeepLast(jira_key, h, fault, j) ==
    LET hits == {i \in j..Len(h) : IsSubstring(jira_key, h[i].message)}
    IN  IF hits = {} THEN FallsThrough(jira_key)
        ELSE Returns(Found(jira_key, h[CHOOSE i \in hits : \A o \in hits : o <= i]))

\* the for loop of search_commit from commit j on
RECURSIVE ScanCommits(_, _, _, _)
ScanCommits(jira_key, h, fault, j) ==
    IF j > Len(h) THEN FallsThrough(jira_key)
    ELSE IF fault = Fault("iter", j) THEN Raises(jira_key)
    ELSE IF IsSubstring(jira_key, h[j].message)
         THEN IF fault.kind = "stats" THEN Raises(jira_key)
              ELSE Returns(Found(jira_key, h[j]))
    ELSE ScanCommits(jira_key, h, fault, j + 1)

\* the body of the try block of search_commit
TryBlock(jira_key, h, fault) ==
    IF fault.kind = "open" THEN Raises(jira_key)
    ELSE ScanCommits(jira_key, h, fault, 1)

\* search_commit whose except clause is missing
SearchCommitUncaught(jira_key, h, fault) ==
    LET body == TryBlock(jira_key, h, fault)
    IN  IF body.raised THEN body
        ELSE IF body.returned THEN body
        ELSE Returns(NotFound(jira_key))

search_commit(jira_key, h, fault) ==
    LET body == TryBlock(jira_key, h, fault)
    IN  IF body.returned THEN body
        ELSE \* the except clause logs the error; control reaches the
             \* return after the try statement
             Returns(NotFound(jira_key))

\* max(1, cpu_count() - 1)
Processes(cpus) == IF cpus - 1 > 1 THEN cpus - 1 ELSE 1

Min(a, b) == IF a < b THEN a ELSE b

\* a slice one key too long: keys[i:i + batch_size + 1]
BatchOneTooLong(allKeys, i, size) ==
    SubSeq(allKeys, i + 1, Min(i + size + 1, Len(allKeys)))

\* keys[i:i + batch_size]
Batch(allKeys, i, size) == SubSeq(allKeys, i + 1, Min(i + size, Len(allKeys)))

NoCall(jira_key) == FallsThrough(jira_key)

QueuedTask(jira_key) ==
    [key |-> jira_key, state |-> "queued", worker |-> 0, fault |-> NoFault,
     call |-> NoCall(jira_key)]

\* a mapping in which the first result of a key is kept and a later one
\* dropped
RECURSIVE ResultsByKeyFirstWins(_)
ResultsByKeyFirstWins(list) ==
    IF list = <<>> THEN <<>>
    ELSE LET last == list[Len(list)]
             rest == ResultsByKeyFirstWins(SubSeq(list, 1, Len(list) - 1))
         IN  [k \in (DOMAIN rest) \cup {last.key} |->
                 IF k \in DOMAIN rest THEN rest[k] ELSE last]

\* {result['key']: result for result in results}
RECURSIVE ResultsByKey(_)
ResultsByKey(list) ==
    IF list = <<>> THEN <<>>
    ELSE LET last == list[Len(list)]
             rest == ResultsByKey(SubSeq(list, 1, Len(list) - 1))
         IN  [k \in (DOMAIN rest) \cup {last.key} |->
                 IF k = last.key THEN last ELSE rest[k]]

Workers == 1..Processes(cpu_count)

Busy(w) == \E k \in 1..Len(tasks) : tasks[k].state = "running" /\ tasks[k].worker = w

Queued == { k \in 1..Len(tasks) : tasks[k].state = "queued" }

InitMatcher ==
    /\ history \in Histories
    /\ keys \in SeqsUpTo(IssueKeys, MaxKeys)
    /\ batch_size \in 1..MaxBatchSize
    /\ cpu_count \in 1..MaxCpus
    /\ mpc = "loop"
    /\ batch_i = 0
    /\ tasks = <<>>
    /\ results = <<>>
    /\ faultLog = <<>>
    /\ outOfOrder = FALSE
    /\ batches = <<>>
    /\ commit_results = <<>>
    /\ tags = <<>>
    /\ version_commits = <<>>
    /\ metrics_list = <<>>
    /\ pc = "idle"
    /\ csvFiles = [v \in CacheVersions |-> Absent]
    /\ IdleRepo /\ IdleProc /\ IdleRuns

pipelineVars == <<repoVars, procVars, run, cleanResults, undLog, extracted,
                  written, prevRun, fatal, csvFrom>>

\* batch = keys[i:i + batch_size]; pool.map is given the batch
StartBatch ==
    /\ mpc = "loop"
    /\ batch_i < Len(keys)
    /\ LET batch == Batch(keys, batch_i, batch_size)
       IN  /\ tasks' = [k \in 1..Len(batch) |-> QueuedTask(batch[k])]
           /\ batches' = Append(batches, batch)
    /\ mpc' = "map"
    /\ UNCHANGED <<history, keys, batch_size, cpu_count, batch_i, results,
                   faultLog, outOfOrder, commit_results, pipelineVars>>

\* an idle worker process takes the next call of the batch
TakeTask(w) ==
    /\ mpc = "map"
    /\ ~ Busy(w)
    /\ Queued # {}
    /\ LET k == CHOOSE q \in Queued : \A o \in Queued : q <= o
       IN  tasks' = [tasks EXCEPT ![k].state = "running", ![k].worker = w]
    /\ UNCHANGED <<history, keys, batch_size, cpu_count, batches, mpc, batch_i, results,
                   faultLog, outOfOrder, commit_results, pipelineVars>>

\* a lookup that checks the matching commit out to read its files
RunSearchCommitWithCheckout(w) ==
    /\ mpc = "map"
    /\ \E k \in 1..Len(tasks), fault \in FaultPoints(history) :
          /\ tasks[k].state = "running"
          /\ tasks[k].worker = w
          /\ tasks' = [tasks EXCEPT
                          ![k].state = "done",
                          ![k].fault = fault,
                          ![k].call = search_commit(tasks[k].key, history, fault)]
          /\ outOfOrder' = (outOfOrder \/ \E e \in 1..(k - 1) : tasks[e].state # "done")
          /\ head' = IF tasks'[k].call.value.commit_id = NotAvailable THEN head
                     ELSE CHOOSE h \in Hexshas :
                              <<h[1]>> = tasks'[k].call.value.commit_id
    /\ UNCHANGED <<history, keys, batch_size, cpu_count, batches, mpc, batch_i, results,
                   faultLog, commit_results>>
    /\ UNCHANGED <<tags, untracked, modified, csvFiles, dbFiles, outputTable>>
    /\ UNCHANGED <<procVars, run, cleanResults, undLog, extracted, written,
                   prevRun, fatal, csvFrom>>

\* the worker runs search_commit(jira_key, repo_path) to its end
RunSearchCommit(w) ==
    /\ mpc = "map"
    /\ \E k \in 1..Len(tasks), fault \in FaultPoints(history) :
          /\ tasks[k].state = "running"
          /\ tasks[k].worker = w
          /\ tasks' = [tasks EXCEPT
                          ![k].state = "done",
                          ![k].fault = fault,
                          ![k].call = search_commit(tasks[k].key, history, fault)]
          /\ outOfOrder' = (outOfOrder \/ \E e \in 1..(k - 1) : tasks[e].state # "done")
    /\ UNCHANGED <<history, keys, batch_size, cpu_count, batches, mpc, batch_i, results,
                   faultLog, commit_results, pipelineVars>>

\* the batch loop keeping only the results of the batch just mapped
EndBatchOverwrite ==
    /\ mpc = "map"
    /\ \A k \in 1..Len(tasks) : tasks[k].state = "done"
    /\ results' = [k \in 1..Len(tasks) |-> tasks[k].call.value]
    /\ faultLog' = [k \in 1..Len(tasks) |-> tasks[k].fault]
    /\ batch_i' = batch_i + batch_size
    /\ tasks' = <<>>
    /\ mpc' = "loop"
    /\ UNCHANGED <<history, keys, batch_size, cpu_count, batches, outOfOrder,
                   commit_results, pipelineVars>>

\* pool.map returns the results in the order of the batch;
\* results.extend(batch_results)
EndBatch ==
    /\ mpc = "map"
    /\ \A k \in 1..Len(tasks) : tasks[k].state = "done"
    /\ results' = results \o [k \in 1..Len(tasks) |-> tasks[k].call.value]
    /\ faultLog' = faultLog \o [k \in 1..Len(tasks) |-> tasks[k].fault]
    /\ batch_i' = batch_i + batch_size
    /\ tasks' = <<>>
    /\ mpc' = "loop"
    /\ UNCHANGED <<history, keys, batch_size, cpu_count, batches, outOfOrder,
                   commit_results, pipelineVars>>

\* the batch loop is over; the mapping is built and returned
ReturnResults ==
    /\ mpc = "loop"
    /\ batch_i >= Len(keys)
    /\ commit_results' = ResultsByKey(results)
    /\ mpc' = "returned"
    /\ UNCHANGED <<history, keys, batch_size, cpu_count, batches, batch_i, tasks, results,
                   faultLog, outOfOrder, pipelineVars>>

\* the user interrupts the commit matcher: the KeyboardInterrupt leaves
\* pool.map and the batch loop, the "with Pool" block terminates the workers
\* and, main having no clause for it, the process ends; no result of the
\* batch in flight is kept and no recovery step is called
InterruptMatcher ==
    /\ mpc \in {"loop", "map"}
    /\ mpc' = "interrupted"
    /\ tasks' = <<>>
    /\ UNCHANGED <<history, keys, batch_size, cpu_count, batches, batch_i, results,
                   faultLog, outOfOrder, commit_results, pipelineVars>>

NextMatcher ==
    \/ InterruptMatcher
    \/ StartBatch
    \/ \E w \in Workers : TakeTask(w)
    \/ \E w \in Workers : RunSearchCommit(w)
    \/ EndBatch
    \/ ReturnResults

SpecMatcher == InitMatcher /\ [][NextMatcher]_vars


(***************************************************************************)
(* Properties of get_version_commits (checked under SpecResolver).         *)
(***************************************************************************)
\* (major, minor, patch) as one integer; every component is below 100
SemVerRank(v) == v[1] * 10000 + v[2] * 100 + v[3]

\* the release naming convention, stated on its own
IsReleaseName(name) ==
    /\ name.stem = "release-"
    /\ name.prefix = "" \/ name.prefix = "rel/"
    /\ name.suffix = ""
    /\ Len(name.nums) = 3
    /\ 2 <= name.nums[1] /\ name.nums[1] <= 4

RECURSIVE ReleasePairsOf(_, _)
\* (version, target commit) of the release tags of version v, in list order
ReleasePairsOf(tagList, v) ==
    IF tagList = <<>> THEN <<>>
    ELSE (IF IsReleaseName(Head(tagList).name) /\ Head(tagList).name.nums = v
          THEN <<(<<v, Head(tagList).commit>>)>>
          ELSE <<>>) \o ReleasePairsOf(Tail(tagList), v)

Occurrences(s, x) == Cardinality({i \in 1..Len(s) : s[i] = x})

\* C6 (as stated): the list returned by get_version_commits is strictly
\* ascending by (major, minor, patch) compared as integers: each pair's
\* version is strictly smaller than the next pair's.
C6_StrictlyAscending ==
    pc = "resolved" =>
        \A i \in 1..(Len(version_commits) - 1) :
            SemVerRank(version_commits[i][1])
                < SemVerRank(version_commits[i + 1][1])

\* C6 (amended): the list returned by get_version_commits is ascending by
\* (major, minor, patch) compared as integers, and two neighbours are equal
\* only when two tags carry the same version; such pairs keep the order in
\* which the tags were listed.
C6_Ascending ==
    pc = "resolved" =>
        /\ \A i \in 1..(Len(version_commits) - 1) :
               SemVerRank(version_commits[i][1])
                   <= SemVerRank(version_commits[i + 1][1])
        /\ \A v \in {version_commits[i][1] : i \in 1..Len(version_commits)} :
               FilterSeq(version_commits, {p \in Range(version_commits) : p[1] = v})
                 = ReleasePairsOf(tags, v)

\* 2.10.0 was listed before 2.9.0 and comes out after it
C6_Witness ==
    /\ pc = "resolved"
    /\ Len(tags) >= 2
    /\ tags[1].name = Release_2_10_0
    /\ tags[2].name = Release_2_9_0
    /\ Len(version_commits) = 2
    /\ version_commits[1][1] = <<2, 9, 0>>
    /\ version_commits[2][1] = <<2, 10, 0>>

\* C7: get_version_commits returns one pair for every tag whose name matches
\* the release pattern and none for any other tag, and each pair holds the
\* version of the name and the full hash of the tag's target commit.
C7_ExactlyMatchingTags ==
    pc = "resolved" =>
        /\ Len(version_commits)
             = Cardinality({i \in 1..Len(tags) : IsReleaseName(tags[i].name)})
        /\ \A i \in 1..Len(tags) :
               LET p == <<tags[i].name.nums, tags[i].commit>>
               IN  IF IsReleaseName(tags[i].name)
                   THEN Occurrences(version_commits, p)
                          = Cardinality({j \in 1..Len(tags) :
                                /\ IsReleaseName(tags[j].name)
                                /\ <<tags[j].name.nums, tags[j].commit>> = p})
                   ELSE \A k \in 1..Len(version_commits) :
                          version_commits[k] = p =>
                            \E j \in 1..Len(tags) :
                               /\ IsReleaseName(tags[j].name)
                               /\ <<tags[j].name.nums, tags[j].commit>> = p
        /\ \A k \in 1..Len(version_commits) :
               version_commits[k][2] \in Hexshas

\* a list with a matching tag and a tag that only lacks the closing anchor
C7_Witness ==
    /\ pc = "resolved"
    /\ \E i \in 1..Len(tags) : tags[i].name = Release_2_0_0_rc1
    /\ \E i \in 1..Len(tags) : tags[i].name = Rc_Nightly
    /\ Len(version_commits) = 1

(***************************************************************************)
(* Properties of the metrics pipeline (checked under Spec).                *)
(***************************************************************************)
\* collect_all_metrics was called and the process has ended
RunEnded == pc = "exited" /\ repoValid

\* number of versions whose iteration of the loop ran to its end
Completed == IF idx = 0 THEN 0 ELSE idx - 1

\* C1 (as stated): after a run ends by any path, provided the recovery git
\* commands succeeded, untracked and modified files are discarded and the
\* primary branch is checked out.
C1_TreeClean ==
    (RunEnded /\ \E k \in 1..Len(cleanResults) : cleanResults[k] = "ok") =>
        /\ head = Master
        /\ ~ untracked
        /\ ~ modified

\* C1 (amended): after a run ends by any path, provided the git commands of
\* one clean_repo call succeeded, the untracked files are removed and the
\* primary branch is checked out (local changes of tracked files are left).
C1_UntrackedRemovedOnMaster ==
    (RunEnded /\ \E k \in 1..Len(cleanResults) : cleanResults[k] = "ok") =>
        /\ head = Master
        /\ ~ untracked

\* an interrupted run that had checked out a version ends on master
C1_Witness ==
    /\ RunEnded
    /\ exc = "KeyboardInterrupt"
    /\ idx = 2
    /\ cleanResults = <<"ok", "clean_failed">>
    /\ head = Master

\* C2 (as stated): in every invocation in which main calls
\* collect_all_metrics, clean_repo executes exactly once.
C2_CleanRepoExactlyOnce ==
    RunEnded => Len(cleanResults) = 1

\* C2 (amended): clean_repo executes once when the run completes or leaves
\* through sys.exit (failed checkout or tag listing), and twice, in the
\* finally clause and again in main's handler, when a KeyboardInterrupt or
\* another exception reaches main.
C2_CleanRepoOnceOrTwice ==
    RunEnded =>
        Len(cleanResults)
          = IF exc \in {"KeyboardInterrupt", "CalledProcessError", "Exception"}
            THEN 2 ELSE 1

\* an interrupted run: clean_repo ran in the finally clause and in the handler
C2_Witness ==
    /\ RunEnded
    /\ exc = "KeyboardInterrupt"
    /\ exitCode = 1
    /\ Len(cleanResults) = 2

\* C3: when an analyzer command (create, add, analyze, metrics) exits
\* non-zero for a version and nothing else goes wrong, that version
\* contributes no rows and every later version is still processed.
C3_AnalyzerFailureSkipsVersion ==
    (/\ RunEnded
     /\ \E k \in 1..Len(undLog) : ~ undLog[k].ok
     /\ exc \in {"none", "CalledProcessError"}) =>
        /\ Completed = Len(version_commits)
        /\ \A k \in 1..Len(undLog) :
              ~ undLog[k].ok => Occurrences(written, undLog[k].iter) = 0

\* C4 (as stated): once the header is written, a run that is interrupted
\* or fails after k completed versions leaves the header and the rows of
\* exactly those k versions in the output table.
C4_ExactlyCompletedVersions ==
    (RunEnded /\ idx >= 1 /\ exitCode # 0) =>
        /\ Len(outputTable) = 1 + Len(written)
        /\ outputTable[1] = HeaderRow
        /\ \A i \in 1..Completed : Occurrences(written, i) = extracted[i]
        /\ \A k \in 1..Len(written) : written[k] <= Completed

\* C4 (amended): once the header is written, a run that ends after k
\* completed versions leaves in the output table the header, every row of
\* those k versions in order, and then the rows of version k+1 written
\* before the run ended (none, some or all of them), each row carrying the
\* version and commit of its iteration.
C4_CompletedVersionsThenPrefix ==
    (RunEnded /\ idx >= 1) =>
        /\ Len(outputTable) = 1 + Len(written)
        /\ outputTable[1] = HeaderRow
        /\ \A i \in 1..Completed : Occurrences(written, i) = extracted[i]
        /\ \A k \in 1..Len(written) : written[k] <= Completed + 1
        /\ \A k \in 1..(Len(written) - 1) : written[k] <= written[k + 1]
        /\ Completed < Len(extracted) =>
              Occurrences(written, Completed + 1) <= extracted[Completed + 1]
        /\ \A k \in 1..Len(written) :
              /\ outputTable[1 + k][1] = VersionText(version_commits[written[k]][1])
              /\ outputTable[1 + k][2] = version_commits[written[k]][2]

\* interrupted in the second version after one of its two rows was written
C4_Witness ==
    /\ RunEnded
    /\ exc = "KeyboardInterrupt"
    /\ idx = 2
    /\ Len(extracted) = 2
    /\ extracted[2] = 2
    /\ Occurrences(written, 2) = 1
    /\ Len(outputTable) = 2 + extracted[1]

\* C9: the header and every row written to the output table have
\* 3 + (number of declared metric names) columns; the header names Version,
\* CommitId, File and then the metric names in declared order, and every
\* row starts with its version and commit identifier.
C9_FixedSchema ==
    LET rows == (IF idx >= 1 THEN outputTable ELSE <<>>) \o csv_out.buffer
    IN  /\ \A k \in 1..Len(rows) : Len(rows[k]) = 3 + Len(metrics)
        /\ rows # <<>> =>
              /\ rows[1][1] = <<"Version">>
              /\ rows[1][2] = <<"CommitId">>
              /\ rows[1][3] = <<"File">>
              /\ \A j \in 1..Len(metrics) : rows[1][3 + j] = <<metrics[j]>>
        /\ \A k \in 2..Len(rows) :
              /\ \E i \in 1..Len(version_commits) :
                    /\ rows[k][1] = VersionText(version_commits[i][1])
                    /\ rows[k][2] = version_commits[i][2]
              /\ rows[k][3] = <<"File">>

\* a finished run whose table holds the header and rows of two versions
C9_Witness ==
    /\ RunEnded
    /\ exitCode = 0
    /\ Len(version_commits) = 2
    /\ Len(outputTable) >= 4
    /\ Len(outputTable[4]) = 46

(***************************************************************************)
(* Idempotence of the metrics pipeline (checked under SpecRerun).          *)
(***************************************************************************)
\* C5 (as stated): a second run that follows a completed first run, with
\* the repository and the data directory as the first run left them,
\* invokes no analyzer command and writes a table identical to the first's.
C5_SecondRunFromCache ==
    (run >= 2 /\ prevRun.exitCode = 0) =>
        /\ undLog = <<>>
        /\ (pc = "exited" /\ exitCode = 0) => outputTable = prevRun.table

\* C5 (amended): when the run before left a cache artifact (a file) for
\* every version, the next run invokes no analyzer command; when the run
\* before completed and none of its analyzer commands exited non-zero, a
\* next run that completes writes a table identical to the one before.
C5_SecondRunFromFullCache ==
    /\ (run >= 2 /\ prevRun.allCached) => undLog = <<>>
    /\ (run >= 2 /\ prevRun.exitCode = 0 /\ prevRun.undOk) =>
          /\ prevRun.allCached
          /\ (pc = "exited" /\ exitCode = 0) => outputTable = prevRun.table

\* a second run completed from the cache the first run filled by analysis
C5_Witness ==
    /\ run = 2
    /\ pc = "exited"
    /\ exitCode = 0
    /\ prevRun.exitCode = 0
    /\ prevRun.undOk
    /\ Len(version_commits) = 2
    /\ \E v \in VersionsOf(tags) : csvFiles[v].text \in AnalyzerOutputs
    /\ Len(outputTable) >= 3
    /\ undLog = <<>>

(***************************************************************************)
(* Properties of the row parser of get_metrics (checked under SpecParse).  *)
(***************************************************************************)
\* the number of comma-separated fields of a line
FieldCount(line) == Cardinality({i \in 1..Len(line) : line[i] = ","}) + 1

\* the k-th smallest element of a set of integers
NthOf(S, k) == CHOOSE i \in S : Cardinality({j \in S : j < i}) = k - 1

ParsedText == csvFiles[ParseVersion].text

\* C8 (as stated): after the header row, get_metrics produces exactly one
\* record for each row whose field count is the number of declared metric
\* names plus one, and none for a row of any other field count.
C8_OneRecordPerFullRow ==
    pc = "parsed" =>
        Len(metrics_list)
          = Cardinality({i \in 2..Len(ParsedText) :
                FieldCount(ParsedText[i]) = Len(metrics) + 1})

\* C8 (amended): after the first line, get_metrics produces exactly one
\* record, in order, for each row whose first field is the text File and
\* whose field count is the number of declared metric names plus one, and
\* none for any other row; a dropped row never stops the rows after it.
C8_OneRecordPerFullFileRow ==
    pc = "parsed" =>
        LET kept == {i \in 2..Len(ParsedText) :
                       /\ FieldCount(ParsedText[i]) = Len(metrics) + 1
                       /\ Split(Strip(ParsedText[i]))[1] = <<"File">>}
        IN  /\ Len(metrics_list) = Cardinality(kept)
            /\ \A k \in 1..Len(metrics_list) :
                  LET fields == Split(Strip(ParsedText[NthOf(kept, k)]))
                  IN  /\ metrics_list[k]["File"] = fields[1]
                      /\ metrics_list[k]["AvgCyclomatic"] = fields[2]
                      /\ metrics_list[k]["SumEssential"] = fields[39]

\* header, one row of the wrong field count, one well-formed row: one record
C8_Witness ==
    /\ pc = "parsed"
    /\ ParsedText = <<HeaderLine,
                      AnalyzerLine("File", "short.java", Len(metrics)),
                      AnalyzerLine("File", "b.java", Len(metrics) + 1)>>
    /\ Len(metrics_list) = 1
    /\ metrics_list[1]["AvgCyclomatic"] = <<"b.java">>

(***************************************************************************)
(* Claims about the commit matcher (SpecMatcher).                          *)
(***************************************************************************)
\* the text holds the key somewhere between two of its positions
Contains(text, jira_key) ==
    \E a, b \in 0..Len(text) : a <= b /\ SubSeq(text, a + 1, b) = jira_key

SomeMessageContains(jira_key) ==
    \E j \in 1..Len(history) : Contains(history[j].message, jira_key)

\* the fault of a lookup is met before the lookup can return a commit
LookupRaises(jira_key, fault) ==
    \/ fault.kind = "open"
    \/ fault.kind = "stats" /\ SomeMessageContains(jira_key)
    \/ /\ fault.kind = "iter"
       /\ \A j \in 1..(fault.at - 1) : ~ Contains(history[j].message, jira_key)

IsSentinel(result) ==
    result.commit_id = <<"N/A">> /\ result.file_paths = <<"N/A">>

SameBatch(a, b) == (a - 1) \div batch_size = (b - 1) \div batch_size

\* C10: every finished call of search_commit returned a result carrying its
\* own key and raised nothing; when no commit message of the history
\* contains the key, or when the lookup met an error, that result is the
\* "not found" sentinel (commit_id and file_paths "N/A"); and once
\* process_issues_batch has returned, every key given has its result, so a
\* failed lookup did not keep the other keys of its batch from being looked
\* up.
C10_LookupNeverRaises ==
    /\ \A k \in 1..Len(tasks) :
          tasks[k].state = "done" =>
              /\ ~ tasks[k].call.raised
              /\ tasks[k].call.returned
              /\ tasks[k].call.value.key = tasks[k].key
              /\ (\/ ~ SomeMessageContains(tasks[k].key)
                  \/ LookupRaises(tasks[k].key, tasks[k].fault))
                     => IsSentinel(tasks[k].call.value)
    /\ \A k \in 1..Len(results) :
          /\ results[k].key = keys[k]
          /\ (\/ ~ SomeMessageContains(keys[k])
              \/ LookupRaises(keys[k], faultLog[k]))
                 => IsSentinel(results[k])
          /\ (SomeMessageContains(keys[k]) /\ faultLog[k].kind = "none")
                 => ~ IsSentinel(results[k])
    /\ mpc = "returned" => Len(results) = Len(keys)

\* C10 witness: process_issues_batch has returned; in one batch a lookup
\* whose key is in a commit message met an error and gave the sentinel,
\* another key of the same batch was matched to a commit, and a key found in
\* no message gave the sentinel as well.
C10_Witness ==
    /\ mpc = "returned"
    /\ \E a, b \in 1..Len(results) :
          /\ a # b
          /\ SameBatch(a, b)
          /\ SomeMessageContains(keys[a])
          /\ faultLog[a].kind # "none"
          /\ IsSentinel(results[a])
          /\ faultLog[b].kind = "none"
          /\ ~ IsSentinel(results[b])
    /\ \E c \in 1..Len(results) :
          /\ ~ SomeMessageContains(keys[c])
          /\ IsSentinel(results[c])

\* the position in the history of the first commit whose message contains
\* the key, 0 when there is none
FirstMatch(jira_key) ==
    IF SomeMessageContains(jira_key)
    THEN CHOOSE j \in 1..Len(history) :
            /\ Contains(history[j].message, jira_key)
            /\ \A o \in 1..(j - 1) : ~ Contains(history[o].message, jira_key)
    ELSE 0

\* the result names the commit: the first seven characters of its hash and
\* its changed paths, in order, separated by ", "
NamesCommit(result, commit) ==
    /\ result.commit_id = <<commit.hexsha[1]>>
    /\ FilterSeq(result.file_paths, Range(result.file_paths) \ {", "}) = commit.files
    /\ Len(result.file_paths) = IF commit.files = <<>> THEN 0
                                ELSE 2 * Len(commit.files) - 1

\* C11 (as stated): the result of a key is the first commit, in traversal
\* order, whose message contains the key, and it is the "not found"
\* sentinel only when the whole history holds no such commit.
C11_FirstMatchElseExhausted ==
    \A k \in 1..Len(results) :
        /\ SomeMessageContains(keys[k]) =>
               NamesCommit(results[k], history[FirstMatch(keys[k])])
        /\ IsSentinel(results[k]) => ~ SomeMessageContains(keys[k])

\* C11 (amended): when the lookup meets no error before it returns, the
\* result of a key is the first commit, in traversal order, whose message
\* contains the key; the result is the "not found" sentinel exactly when the
\* whole history was scanned without a match or the lookup met an error
\* before a match was returned.
C11_FirstMatchElseExhaustedOrFailed ==
    /\ \A k \in 1..Len(results) :
          /\ (SomeMessageContains(keys[k]) /\ ~ LookupRaises(keys[k], faultLog[k]))
                => NamesCommit(results[k], history[FirstMatch(keys[k])])
          /\ IsSentinel(results[k])
                <=> (\/ ~ SomeMessageContains(keys[k])
                     \/ LookupRaises(keys[k], faultLog[k]))
    /\ \A k \in 1..Len(tasks) :
          (/\ tasks[k].state = "done"
           /\ SomeMessageContains(tasks[k].key)
           /\ ~ LookupRaises(tasks[k].key, tasks[k].fault))
              => NamesCommit(tasks[k].call.value, history[FirstMatch(tasks[k].key)])

\* C11 witness: a key found in the messages of both commits of the history
\* was given the first of them, with its two paths; the iterator would have
\* failed at the second commit, which the scan never reached.
C11_Witness ==
    /\ mpc = "returned"
    /\ Len(history) = 2
    /\ \E k \in 1..Len(results) :
          /\ Contains(history[1].message, keys[k])
          /\ Contains(history[2].message, keys[k])
          /\ faultLog[k] = Fault("iter", 2)
          /\ results[k].commit_id = <<history[1].hexsha[1]>>
          /\ Len(results[k].file_paths) = 3

\* C12: the mapping process_issues_batch returns has exactly the keys of
\* the list given; the entry of a key carries that key and is the result of
\* a lookup of that key (of the last one when the key was given twice),
\* whatever the pool size, the batch size and the order in which the calls
\* of a batch ended.
C12_MappingHasExactlyTheKeys ==
    mpc = "returned" =>
        /\ Len(results) = Len(keys)
        /\ DOMAIN commit_results = Range(keys)
        /\ \A key \in Range(keys) :
              /\ commit_results[key].key = key
              /\ \E k \in 1..Len(keys) :
                    /\ keys[k] = key
                    /\ \A o \in (k + 1)..Len(keys) : keys[o] # key
                    /\ commit_results[key] = results[k]
                    /\ IF SomeMessageContains(key) /\ ~ LookupRaises(key, faultLog[k])
                       THEN NamesCommit(commit_results[key], history[FirstMatch(key)])
                       ELSE IsSentinel(commit_results[key])

\* C12 witness: three distinct keys went through two batches on two
\* workers, a call ended before an earlier call of its batch, and the
\* mapping returned has the three keys.
C12_Witness ==
    /\ mpc = "returned"
    /\ Len(keys) = 3
    /\ batch_size = 2
    /\ Processes(cpu_count) = 2
    /\ outOfOrder
    /\ Cardinality(DOMAIN commit_results) = 3

(***************************************************************************)
(* Fatal errors and interruption of the metrics pipeline (Spec).           *)
(***************************************************************************)
\* C13: from the failure of the checkout of version i on, the run is in
\* its cleanup or has ended: the loop is not resumed and that commit is not
\* checked out, no analyzer command has run and no row was written for
\* version i or a later one, and the process ends with a non-zero status.
C13_CheckoutFailureAbortsRun ==
    fatal.kind = "checkout" =>
        /\ pc \in {"finally", "handler", "exited"}
        /\ idx = fatal.iter
        /\ head # version_commits[fatal.iter][2]
        /\ \A k \in 1..Len(undLog) : undLog[k].iter < fatal.iter
        /\ \A k \in 1..Len(written) : written[k] < fatal.iter
        /\ Len(extracted) < fatal.iter
        /\ Len(outputTable) + Len(csv_out.buffer) <= 1 + Len(written)
        /\ pc = "exited" => exitCode \notin {0, -1}

\* C13 witness: the checkout of the second version failed after the first
\* version was analyzed and its rows written; the process ended with status 1.
C13_Witness ==
    /\ fatal = [kind |-> "checkout", iter |-> 2]
    /\ pc = "exited"
    /\ exitCode = 1
    /\ Len(version_commits) = 2
    /\ \E k \in 1..Len(undLog) : undLog[k].iter = 1 /\ undLog[k].cmd = "metrics"
    /\ written # <<>>
    /\ Len(outputTable) = 1 + Len(written)

\* C14 (as stated): when the process has ended after a fatal error
\* (repository missing or invalid, checkout failure, analyzer not
\* launchable), clean_repo has run and the exit status is non-zero.
C14_FatalErrorCleansThenExits ==
    (pc = "exited" /\ fatal.kind \in {"invalid_repo", "checkout", "launch"}) =>
        /\ cleanResults # <<>>
        /\ exitCode \notin {0, -1}

\* C14 (amended): every fatal error ends the process with a non-zero
\* status; after a failed checkout, a failed tag listing or an analyzer
\* that cannot be launched, clean_repo has run before the exit (once for
\* the two exits raised by sys.exit, twice for the launch failure); an
\* invalid repository ends the process in the constructor, before any
\* clean_repo and with the working tree untouched.
C14_FatalErrorExitsCleaningAValidRepo ==
    (pc = "exited" /\ fatal.kind # "none") =>
        /\ exitCode \notin {0, -1}
        /\ fatal.kind \in {"checkout", "tag_listing"} => Len(cleanResults) >= 1
        /\ fatal.kind = "launch" => Len(cleanResults) = 2
        /\ fatal.kind = "invalid_repo" =>
              /\ cleanResults = <<>>
              /\ ~ repoValid
              /\ head = Master
              /\ version_commits = <<>>

\* C14 witness: the analyzer could not be launched for the first version;
\* clean_repo ran in the finally clause and in main's handler, both with
\* success, and the process ended with status 1 on the primary branch.
C14_Witness ==
    /\ pc = "exited"
    /\ fatal = [kind |-> "launch", iter |-> 1]
    /\ cleanResults = <<"ok", "ok">>
    /\ exitCode = 1
    /\ head = Master

(***************************************************************************)
(* Interruption of the two pipelines.                                      *)
(***************************************************************************)
\* C15: once a pipeline has ended by a user interruption, the recovery
\* step has run (clean_repo was called at least once), and the results of
\* the batch in flight are in no mapping returned.
C15_InterruptRunsRecovery ==
    /\ (pc = "exited" /\ exc = "KeyboardInterrupt") => cleanResults # <<>>
    /\ mpc = "interrupted" =>
          /\ cleanResults # <<>>
          /\ commit_results = <<>>
          /\ tasks = <<>>

(***************************************************************************)
(* Provenance of the rows and the cache (Spec).                            *)
(***************************************************************************)
\* the run found no cache artifact, file or directory, in data/
StartedWithEmptyCache ==
    \A v \in CacheVersions :
        csvFrom[v] # FoundBefore /\ csvFiles[v] # Directory

\* C16: in a run that started with an empty cache directory, every row
\* written is tagged with the version and the commit of its iteration, and
\* the csv its metrics were read from was computed with that very commit
\* checked out.
C16_RowsTaggedWithTheirSourceCommit ==
    StartedWithEmptyCache =>
        \A k \in 1..Len(written) :
            LET pair == version_commits[written[k]]
                rows == (IF idx >= 1 THEN outputTable ELSE <<>>) \o csv_out.buffer
            IN  /\ rows[1 + k][1] = VersionText(pair[1])
                /\ rows[1 + k][2] = pair[2]
                /\ csvFrom[pair[1]] = pair[2]

\* the analyzer commands run so far in the current iteration
UndRunsOfIteration == {k \in 1..Len(undLog) : undLog[k].iter = idx}

\* C17: an analyzer command runs for a version only when nothing exists at
\* the version's csv path, and every version whose csv path holds nothing
\* at the lookup gets the analyzer run; a row of a version on a miss is
\* written only after the checkout of its commit and the analyzer run.
C17_AnalyzerRunsIffArtifactAbsent ==
    /\ pc \in {"und_create", "und_add", "und_analyze"} =>
          ~ Exists(csvFiles[version])
    /\ (pc = "get_metrics" /\ UndRunsOfIteration = {}) =>
          Exists(csvFiles[version])
    /\ (pc \in {"read_csv", "write"} /\ UndRunsOfIteration # {}) =>
          /\ head = commit_id
          /\ \A k \in UndRunsOfIteration : undLog[k].head = commit_id

\* C18: every analyzer command ran, and runs, with the commit of its own
\* version checked out; the commands of one version all come before those
\* of the next, in the order create, add, analyze, metrics; and a checkout
\* of the recovery step happens only once the loop has been left.
C18_AnalyzerRunsOnItsCommit ==
    /\ \A k \in 1..Len(undLog) :
          /\ undLog[k].iter \in 1..Len(version_commits)
          /\ undLog[k].head = version_commits[undLog[k].iter][2]
    /\ \A k \in 1..(Len(undLog) - 1) :
          \/ undLog[k].iter < undLog[k + 1].iter
          \/ /\ undLog[k].iter = undLog[k + 1].iter
             /\ undLog[k].ok
             /\ <<undLog[k].cmd, undLog[k + 1].cmd>>
                   \in {<<"create", "add">>, <<"add", "analyze">>,
                        <<"analyze", "metrics">>}
    /\ pc \in {"und_create", "und_add", "und_analyze", "get_metrics",
               "read_csv", "write"} =>
          /\ head = commit_id
          /\ cleanResults = <<>>
    /\ cleanResults # <<>> => pc \in {"finally", "handler", "exited"}

\* C18 witness: two versions were analyzed one after the other, each with
\* its own commit checked out, and the run has ended on the primary branch.
C18_Witness ==
    /\ pc = "exited"
    /\ exitCode = 0
    /\ head = Master
    /\ Len(undLog) = 8
    /\ undLog[4].head = version_commits[1][2]
    /\ undLog[8].head = version_commits[2][2]
    /\ undLog[4].head # undLog[8].head

(***************************************************************************)
(* The intermediate analyzer databases (SpecRerun).                        *)
(***************************************************************************)
\* inside the iteration of the current version
InIteration ==
    pc \in {"und_create", "und_add", "und_analyze", "get_metrics", "read_csv",
            "write"}

\* the databases on disk that were not there when this invocation started
DatabasesOfThisRun == {v \in CacheVersions : dbFiles[v] /\ ~ prevRun.dbFiles[v]}

\* C19: the database of a version whose iteration has ended is gone (a
\* later iteration of the same version may be building it anew); at the
\* start of an iteration no database made by this run is on disk, and at
\* any time at most one is, the one of the version in progress.
C19_DatabaseRemovedAfterItsVersion ==
    /\ \A i \in 1..Completed :
          dbFiles[version_commits[i][1]] =>
              /\ i < idx
              /\ idx <= Len(version_commits)
              /\ version_commits[i][1] = version_commits[idx][1]
              /\ InIteration \/ pc \in {"finally", "handler", "exited"}
    /\ pc = "loop" => DatabasesOfThisRun = {}
    /\ Cardinality(DatabasesOfThisRun) <= 1
    /\ \A v \in DatabasesOfThisRun :
          idx \in 1..Len(version_commits) /\ v = version_commits[idx][1]

\* C19 witness: the invocation before left a database behind; this one
\* analyzed two versions, removed the database of each, and ended with no
\* database on disk.
C19_Witness ==
    /\ run = 2
    /\ \E v \in CacheVersions : prevRun.dbFiles[v]
    /\ pc = "exited"
    /\ exitCode = 0
    /\ Len(version_commits) = 2
    /\ \E k \in 1..Len(undLog) : undLog[k].iter = 1 /\ undLog[k].cmd = "create"
    /\ \E k \in 1..Len(undLog) : undLog[k].iter = 2 /\ undLog[k].cmd = "create"
    /\ \A v \in CacheVersions : ~ dbFiles[v]

(***************************************************************************)
(* Frame of the commit matcher (SpecMatcher).                              *)
(***************************************************************************)
\* the calls of the batch other than those in Changed are as they were
OnlyTasksChanged(Changed) ==
    /\ Len(tasks') = Len(tasks)
    /\ \A k \in (1..Len(tasks)) \ Changed : tasks'[k] = tasks[k]

\* C20: no step of the commit matcher changes what is checked out, the
\* working tree, the tags, the commit history or the data directory; and a
\* step of a worker changes the call that worker is running and no other
\* call, while the results already collected stay as they are.
C20_MatcherLeavesRepositoryAlone ==
    [][/\ head' = head
       /\ untracked' = untracked
       /\ modified' = modified
       /\ tags' = tags
       /\ history' = history
       /\ csvFiles' = csvFiles
       /\ dbFiles' = dbFiles
       /\ outputTable' = outputTable
       /\ (mpc = "map" /\ mpc' = "map") =>
             /\ \E k \in 1..Len(tasks) : OnlyTasksChanged({k})
             /\ results' = results
             /\ \A k \in 1..Len(tasks) :
                   tasks[k].state = "done" => tasks'[k] = tasks[k]]_vars

\* C20 witness: two workers ran the calls of a batch, one ending before an
\* earlier one, commits were matched, and the clone is still on the
\* primary branch with a clean tree.
C20_Witness ==
    /\ mpc = "returned"
    /\ outOfOrder
    /\ Processes(cpu_count) = 2
    /\ \E k \in 1..Len(results) : ~ IsSentinel(results[k])
    /\ head = Master
    /\ ~ untracked
    /\ ~ modified

(***************************************************************************)
(* C21: the output table on disk.                                          *)
(***************************************************************************)
\* the rows of s are the first rows of t, unchanged
IsPrefix(s, t) ==
    /\ Len(s) <= Len(t)
    /\ SubSeq(t, 1, Len(s)) = s

\* C21 (as stated): every step of the pipeline keeps the rows already in
\* the output table, in place and unchanged, and at most adds rows after
\* them; this includes the rows the table holds when the run starts.
C21_TableAppendOnly ==
    [][IsPrefix(outputTable, outputTable')]_vars

\* C21 (amended): opening the output file at the start of the run empties
\* the table, whatever an earlier run left in it; every other step keeps the
\* rows already on disk, in place and unchanged, and at most adds rows after
\* them.
C21_AppendOnlyOnceOpened ==
    [][IF pc = "open" /\ pc' = "header"
       THEN outputTable' = <<>>
       ELSE IsPrefix(outputTable, outputTable')]_vars

\* C21 witness: the run is in progress with the output file open, rows were
\* written out to a table that already held rows of this run, and a further
\* row is waiting in the buffer.
C21_Witness ==
    /\ csv_out.open
    /\ pc = "loop"
    /\ Len(outputTable) >= 3
    /\ outputTable # PreviousTable
    /\ csv_out.buffer # <<>>

(***************************************************************************)
(* C22: a recovery step that fails itself.                                 *)
(***************************************************************************)
\* the outcomes of clean_repo in which a git command raised GitCommandError
GitErrorOutcomes == {"clean_failed", "checkout_failed"}

\* this step is a run of clean_repo that ended with a git error
RecoveryFailedWithGitError ==
    /\ Len(cleanResults') = Len(cleanResults) + 1
    /\ cleanResults'[Len(cleanResults')] \in GitErrorOutcomes

\* C22: when clean_repo runs because of an earlier failure (an exception is
\* propagating out of collect_all_metrics, or main's handler caught it) and
\* a git command of clean_repo fails, the failure of clean_repo is absorbed:
\* the exception that was propagating is still the one propagating after the
\* step, it goes on to main (its handler, or the exit for sys.exit), and
\* whenever the process has ended after such a step its status is non-zero.
C22_RecoveryFailureDoesNotMask ==
    [][/\ (pc = "finally" /\ exc # "none" /\ RecoveryFailedWithGitError) =>
              /\ exc' = exc
              /\ IF exc = "SystemExit"
                 THEN pc' = "exited" /\ exitCode' = 1
                 ELSE pc' = "handler"
       /\ (pc = "handler" /\ RecoveryFailedWithGitError) =>
              /\ exc' = exc
              /\ pc' = "exited"
              /\ exitCode' = 1
       /\ (pc = "handler" /\ pc' # pc) =>
              /\ pc' = "exited"
              /\ exitCode' # 0]_vars

\* C22 witness: the analyzer failed on a version, clean_repo failed with a
\* git error in the finally clause and again in main's handler, and the
\* process ended with status 1, the analyzer's exception still the recorded
\* one.
C22_Witness ==
    /\ pc = "exited"
    /\ exc = "CalledProcessError"
    /\ Len(cleanResults) = 2
    /\ cleanResults[1] \in GitErrorOutcomes
    /\ cleanResults[2] \in GitErrorOutcomes
    /\ exitCode = 1

(***************************************************************************)
(* C23: the batches of process_issues_batch.                               *)
(***************************************************************************)
\* the batches put end to end
RECURSIVE Concat(_)
Concat(lists) ==
    IF lists = <<>> THEN <<>>
    ELSE Concat(SubSeq(lists, 1, Len(lists) - 1)) \o lists[Len(lists)]

\* ceil(n / d) for d >= 1
CeilDiv(n, d) == (n + d - 1) \div d

\* C23: the batches handed to the pool are consecutive slices of the key
\* list: at any time every batch but the last one handed over has exactly
\* batch_size keys, the last one has between 1 and batch_size keys, and the
\* batches put end to end are the first keys of the list, each position of
\* the list in one batch at most; when process_issues_batch returns, the
\* batches put end to end are the whole key list and their number is
\* ceil(n / batch_size).
C23_KeysPartitionedInBatches ==
    /\ \A b \in 1..Len(batches) :
          /\ Len(batches[b]) \in 1..batch_size
          /\ b < Len(batches) => Len(batches[b]) = batch_size
    /\ IsPrefix(Concat(batches), keys)
    /\ mpc = "returned" =>
          /\ Concat(batches) = keys
          /\ Len(results) = Len(keys)
          /\ Len(batches) = CeilDiv(Len(keys), batch_size)

\* C23 witness: three keys were processed with batch_size 2, in a full
\* batch followed by a batch of the one key left.
C23_Witness ==
    /\ mpc = "returned"
    /\ Len(keys) = 3
    /\ batch_size = 2
    /\ Len(batches) = 2
    /\ Len(batches[1]) = 2
    /\ Len(batches[2]) = 1

(***************************************************************************)
(* C24: the metric columns of a record and of the row written from it      *)
(* (checked under SpecParse).                                              *)
(***************************************************************************)
\* the rows of the analyzer table that get_metrics keeps
KeptRows ==
    {i \in 2..Len(ParsedText) :
        /\ FieldCount(ParsedText[i]) = Len(metrics) + 1
        /\ Split(Strip(ParsedText[i]))[1] = <<"File">>}

\* C24: in every record built by get_metrics, and in the row DictWriter
\* writes from it, the i-th declared metric holds field i+1 of the analyzer
\* row the record was built from, for every position i of the declared
\* metric list, the two positions of CountPath included.
C24_EachMetricHoldsItsOwnField ==
    (pc = "parsed" /\ Len(metrics_list) = Cardinality(KeptRows)) =>
        \A k \in 1..Len(metrics_list) :
            LET fields == Split(Strip(ParsedText[NthOf(KeptRows, k)]))
                row == DictWriterRow(ParseVersion, Sha1, metrics_list[k])
            IN  \A i \in 1..Len(metrics) :
                    /\ metrics_list[k][metrics[i]] = fields[i + 1]
                    /\ row[3 + i] = fields[i + 1]

(***************************************************************************)
(* C25: the result of a key against the result the same key gets in a run  *)
(* of its own.                                                             *)
(***************************************************************************)
\* the result recorded for the key by a run over the same history whose key
\* list is that key alone (one batch, one worker) and whose lookup meets no
\* error
LoneRunResult(jira_key) == search_commit(jira_key, history, NoFault).value

\* the position of the last occurrence of the key in the key list
LastPosition(jira_key) ==
    CHOOSE k \in 1..Len(keys) :
        /\ keys[k] = jira_key
        /\ \A o \in (k + 1)..Len(keys) : keys[o] # jira_key

\* C25 (as stated): the result recorded for a key is the one a run over the
\* same history with that key alone records for it, whatever the other keys
\* of the list, the position of the key, the batch size and the pool size.
C25_ResultDependsOnKeyAndHistoryOnly ==
    mpc = "returned" =>
        \A jira_key \in Range(keys) :
            /\ jira_key \in DOMAIN commit_results
            /\ commit_results[jira_key] = LoneRunResult(jira_key)

\* C25 (amended): the result recorded for a key is the result of the last
\* lookup of that key in the list; when that lookup met no error it is the
\* result a run over the same history with that key alone records, whatever
\* the other keys, the position of the key, the batch size and the pool
\* size; when that lookup met an error it is the "not found" sentinel,
\* whatever the history holds.
C25_ResultDependsOnKeyHistoryAndLookupError ==
    mpc = "returned" =>
        /\ Len(faultLog) = Len(keys)
        /\ \A jira_key \in Range(keys) :
              /\ jira_key \in DOMAIN commit_results
              /\ IF LookupRaises(jira_key, faultLog[LastPosition(jira_key)])
                 THEN IsSentinel(commit_results[jira_key])
                 ELSE commit_results[jira_key] = LoneRunResult(jira_key)

\* C25 witness: a key found in the history was the last of three distinct
\* keys, handled in the second batch of a run with two workers in which
\* the lookup of another key met an error, and it has the result of a run
\* of its own.
C25_Witness ==
    /\ mpc = "returned"
    /\ Len(keys) = 3
    /\ Cardinality(Range(keys)) = 3
    /\ batch_size = 2
    /\ Processes(cpu_count) = 2
    /\ SomeMessageContains(keys[3])
    /\ LookupRaises(keys[1], faultLog[1])
    /\ ~ LookupRaises(keys[3], faultLog[3])
    /\ ~ IsSentinel(commit_results[keys[3]])
    /\ commit_results[keys[3]] = LoneRunResult(keys[3])

(***************************************************************************)
(* C26: the intermediate analyzer databases when the process ends (Spec,   *)
(* which starts with no database on disk).                                 *)
(***************************************************************************)
\* C26: when the process has ended, however it ended (normally, by a fatal
\* error, by an exception or a user interruption raised while the database
\* of a version was being created or analyzed), no analyzer database
\* created by the run is on disk.
C26_NoDatabaseLeftAtExit ==
    pc = "exited" => \A v \in CacheVersions : ~ dbFiles[v]

====
